---------------------------- MODULE Spec2Model ----------------------------
(***************************************************************************)
(* Peer network health manager of core-network (network.rs).               *)
(*                                                                         *)
(* Representation of the f64 fields:                                       *)
(*   quality  is kept in hundredths (0.1 = 10, 0.05 = 5, 1.0 = 100);       *)
(*   backoff  is kept as the number k of times the failure formula         *)
(*            MAX_BACKOFF.max(backoff.powf(BACKOFF_EXPONENT)) was applied  *)
(*            since the last reset to MIN_BACKOFF: k = 0 is 2.0, k = 1 is  *)
(*            300.0, k = 2 is 300^1.5 = 5196.15.., k = 3 is 300^2.25, ...  *)
(*            Every backoff the code can store is one of these values.     *)
(* Timestamps are milliseconds.                                            *)
(*                                                                         *)
(* The f64 sums of 0.1 the code forms within MaxPeerHeartbeats + 1         *)
(* recorded heartbeats (0.30000000000000004, 0.20000000000000004, ...)     *)
(* compare with 0.05, BAD_QUALITY and the thresholds drawn here exactly as *)
(* the decimal values do, so the hundredths decide every branch as the     *)
(* code does.                                                              *)
(*                                                                         *)
(* The PRP of core-crypto (prp.rs) is modelled next to it, on byte buffers *)
(* that are sequences of 0..255.                                           *)
(***************************************************************************)
EXTENDS Integers, Sequences, FiniteSets, TLC

(***************************************************************************)
(* Bounds of the model.                                                    *)
(***************************************************************************)
\* heartbeats recorded in the registered entries, all together (caps heartbeats_sent)
MaxHeartbeats == 4
\* the clock advances in steps of ClockStepMs, MaxTicks times at most
MaxTicks == 2
\* heartbeats recorded for the peer of a long run (caps its heartbeats_sent)
MaxPeerHeartbeats == 11
\* bytes of the longest PRP input past PRP_MIN_LENGTH
MaxTail == 3

(***************************************************************************)
(* Program constants (network.rs:18-26).                                   *)
(***************************************************************************)
MIN_DELAY_MS == 1000
MAX_DELAY_MS == 300000
IGNORE_TIMEFRAME_MS == 600000
\* 2.0 and 300.0 in the representation of backoff
MIN_BACKOFF == 0
MAX_BACKOFF == 1
\* 0.2, 0.1 and 1.0 in hundredths
BAD_QUALITY == 20
QUALITY_STEP == 10
QUALITY_ONE == 100
\* floor(MIN_DELAY_MS * 2.0^1.5), the delay of an entry with backoff 2.0
MIN_BACKOFF_DELAY_MS == 2828

\* crate::parameters, for the PRP
PRP_KEY_LENGTH == 128
PRP_IV_LENGTH == 64
PRP_INTERMEDIATE_KEY_LENGTH == 32
PRP_INTERMEDIATE_IV_LENGTH == 16
PRP_MIN_LENGTH == 32
\* the length of the output of calculate_mac
MAC_LENGTH == 32

\* enum Health
UNKNOWN == 0
RED == 1
ORANGE == 2
YELLOW == 3
GREEN == 4

\* enum PeerOrigin: the origin is kept for diagnostics only and decides nothing, so
\* one value (the one every test of network.rs registers with) is drawn as input
IncomingConnection == 2
Origins == {IncomingConnection}

\* the clock's granularity
ClockStepMs == IGNORE_TIMEFRAME_MS

\* peer ids are opaque strings; me is the local one
me == "me"
Peers == {"me", "p1", "p2"}
Thresholds == {BAD_QUALITY, BAD_QUALITY + QUALITY_STEP}
\* the thresholds a Network is asked for: the accepted ones and 0.19
RequestedThresholds == Thresholds \cup {BAD_QUALITY - 1}

VARIABLES
    entries,                  \* HashMap<String, PeerStatus>
    ignored,                  \* HashMap<String, u64>
    excluded,                 \* HashSet<String>
    network_quality_threshold,
    good_quality_public,
    bad_quality_public,
    good_quality_non_public,
    bad_quality_non_public,
    last_health,
    metric_network_health,    \* last value set on core_gauge_network_health
    metric_peers_by_quality,  \* last values set on core_mgauge_peers_by_quality
    metric_peer_count,        \* last value set on core_gauge_num_peers
    is_public,                \* NetworkExternalActions::is_public, per peer
    now,                      \* current_timestamp()
    calls,                    \* external actions invoked by the last operation, in order
    op,                       \* the last operation and its arguments
    found,                    \* the Vec the last operation returned, <<>> if it returns none
    prp,                      \* the PRP instance, <<>> before PRP::new has built one
    prp_op                    \* the last call of the PRP, its buffer and its result

netVars == <<entries, ignored, excluded, network_quality_threshold,
             good_quality_public, bad_quality_public, good_quality_non_public,
             bad_quality_non_public, last_health>>
metricVars == <<metric_network_health, metric_peers_by_quality, metric_peer_count>>
prpVars == <<prp, prp_op>>
vars == <<netVars, metricVars, is_public, now, calls, op, found, prpVars>>

(***************************************************************************)
(* The Network value as a record, so that the methods compose.             *)
(***************************************************************************)
Self ==
    [entries |-> entries, ignored |-> ignored, excluded |-> excluded,
     network_quality_threshold |-> network_quality_threshold,
     good_quality_public |-> good_quality_public,
     bad_quality_public |-> bad_quality_public,
     good_quality_non_public |-> good_quality_non_public,
     bad_quality_non_public |-> bad_quality_non_public,
     last_health |-> last_health,
     metric_network_health |-> metric_network_health,
     metric_peers_by_quality |-> metric_peers_by_quality,
     metric_peer_count |-> metric_peer_count,
     calls |-> <<>>]

Commit(s) ==
    /\ entries' = s.entries
    /\ ignored' = s.ignored
    /\ excluded' = s.excluded
    /\ network_quality_threshold' = s.network_quality_threshold
    /\ good_quality_public' = s.good_quality_public
    /\ bad_quality_public' = s.bad_quality_public
    /\ good_quality_non_public' = s.good_quality_non_public
    /\ bad_quality_non_public' = s.bad_quality_non_public
    /\ last_health' = s.last_health
    /\ metric_network_health' = s.metric_network_health
    /\ metric_peers_by_quality' = s.metric_peers_by_quality
    /\ metric_peer_count' = s.metric_peer_count
    /\ calls' = s.calls

MapInsert(m, k, v) == [x \in DOMAIN m \cup {k} |-> IF x = k THEN v ELSE m[x]]
MapRemove(m, k) == [x \in DOMAIN m \ {k} |-> m[x]]
EmptyMap == [x \in {} |-> 0]

Max(a, b) == IF a >= b THEN a ELSE b
Min(a, b) == IF a <= b THEN a ELSE b

Call(s, c) == [s EXCEPT !.calls = Append(@, c)]

(***************************************************************************)
(* PeerStatus                                                              *)
(***************************************************************************)
PeerStatusNew(id, origin) ==
    [id |-> id, origin |-> origin, is_public |-> FALSE,
     heartbeats_sent |-> 0, heartbeats_succeeded |-> 0,
     last_seen |-> 0, backoff |-> MIN_BACKOFF, quality |-> 0]

\* a bug that leaves out the cap: 1000 * 300^1.5 is 5196152.4
next_ping_uncapped(entry) ==
    entry.last_seen +
        (IF entry.backoff = MIN_BACKOFF THEN MIN_BACKOFF_DELAY_MS ELSE 5196152)

\* floor(MIN_DELAY.as_millis() * backoff^1.5), capped by MAX_DELAY: 1000 * 2^1.5 is
\* 2828.4, and 1000 * b^1.5 exceeds MAX_DELAY for every b >= 300.
next_ping(entry) ==
    entry.last_seen +
        (IF entry.backoff = MIN_BACKOFF
            THEN Min(MAX_DELAY_MS, MIN_BACKOFF_DELAY_MS)
            ELSE MAX_DELAY_MS)

\* backoff.powf(BACKOFF_EXPONENT) in the representation of backoff: 2.0^1.5 = 2.83 lies
\* below MAX_BACKOFF (any value the max with MAX_BACKOFF absorbs), and
\* (300^(1.5^(k-1)))^1.5 = 300^(1.5^k)
powf_backoff(k) == IF k = MIN_BACKOFF THEN MIN_BACKOFF ELSE k + 1

(***************************************************************************)
(* Network                                                                 *)
(***************************************************************************)
\* a bug that rejects the lowest threshold allowed
new_panics_at_bad_quality(threshold) == threshold <= BAD_QUALITY

\* network.rs:163-165
new_panics(threshold) == threshold < BAD_QUALITY

\* network.rs:167-192
NetworkNew(my_peer_id, threshold) ==
    [entries |-> EmptyMap, ignored |-> EmptyMap, excluded |-> {my_peer_id},
     network_quality_threshold |-> threshold,
     good_quality_public |-> {}, bad_quality_public |-> {},
     good_quality_non_public |-> {}, bad_quality_non_public |-> {},
     last_health |-> UNKNOWN,
     metric_network_health |-> -1,
     metric_peers_by_quality |-> <<-1, -1, -1, -1>>,
     metric_peer_count |-> -1,
     calls |-> <<>>]

has(s, peer) == peer \in DOMAIN s.entries

length(s) == Cardinality(DOMAIN s.entries)

health(s) == s.last_health

prune_from_network_status(s, peer) ==
    [s EXCEPT !.good_quality_public = (@ \ {peer}) \ {peer},
              !.good_quality_non_public = @ \ {peer},
              !.bad_quality_non_public = @ \ {peer}]

\* a bug that asks for a good non-public peer and never for is_public(me)
DeriveHealthWithoutMe(good_public, good_non_public, bad_public, mePublic) ==
    IF good_public > 0
      THEN IF good_non_public > 0 THEN GREEN ELSE YELLOW
      ELSE IF bad_public > 0 THEN ORANGE ELSE RED

\* the health decided from the sizes of the sets (network.rs:308-320); mePublic is
\* is_public(me), asked for only when good_public > 0 and good_non_public = 0
DeriveHealth(good_public, good_non_public, bad_public, mePublic) ==
    LET h0 == RED
        h1 == IF bad_public > 0 THEN ORANGE ELSE h0
    IN  IF good_public > 0
          THEN IF good_non_public > 0 \/ mePublic THEN GREEN ELSE YELLOW
          ELSE h1

\* a bug that stores the new health without telling the callback
store_health_silently(s, hlth) == [s EXCEPT !.last_health = hlth]

\* network.rs:322-326
store_health(s, hlth) ==
    IF hlth # s.last_health
      THEN [Call(s, <<"on_network_health_change", s.last_health, hlth>>)
               EXCEPT !.last_health = hlth]
      ELSE s

refresh_network_status(s, entry, pub) ==
    LET s1 == prune_from_network_status(s, entry.id)
        s2 == IF entry.quality < s1.network_quality_threshold
                 THEN IF entry.is_public
                         THEN [s1 EXCEPT !.bad_quality_public = @ \cup {entry.id}]
                         ELSE [s1 EXCEPT !.bad_quality_non_public = @ \cup {entry.id}]
                 ELSE IF entry.is_public
                         THEN [s1 EXCEPT !.good_quality_public = @ \cup {entry.id}]
                         ELSE [s1 EXCEPT !.good_quality_non_public = @ \cup {entry.id}]
        good_public == Cardinality(s2.good_quality_public)
        good_non_public == Cardinality(s2.good_quality_non_public)
        bad_public == Cardinality(s2.bad_quality_public)
        bad_non_public == Cardinality(s2.bad_quality_non_public)
        asksMe == good_public > 0 /\ ~(good_non_public > 0)
        s3 == IF asksMe THEN Call(s2, <<"is_public", me>>) ELSE s2
        hlth == DeriveHealth(good_public, good_non_public, bad_public, pub[me])
        s4 == store_health(s3, hlth)
    IN  [s4 EXCEPT
            !.metric_peer_count = good_public + good_non_public + bad_public + bad_non_public,
            !.metric_peers_by_quality = <<good_public, bad_public, good_non_public, bad_non_public>>,
            !.metric_network_health = hlth]

\* a bug that lets an ignore entry expire one millisecond early
ignore_expired_early(timestamp, time) == timestamp + IGNORE_TIMEFRAME_MS <= time

\* network.rs:214
ignore_expired(timestamp, time) == timestamp + IGNORE_TIMEFRAME_MS < time

\* a bug that never asks is_public for the new peer
fresh_entry_unasked(peer, origin, pub) == PeerStatusNew(peer, origin)

\* network.rs:219-220
fresh_entry(peer, origin, pub) ==
    [PeerStatusNew(peer, origin) EXCEPT !.is_public = pub[peer]]

\* add, past the exclusion check (network.rs:212-232)
add_not_excluded(s, peer, origin, time, pub) ==
    LET has_entry == peer \in DOMAIN s.entries
        looked == ~has_entry /\ peer \in DOMAIN s.ignored
        expired == looked /\ ignore_expired(s.ignored[peer], time)
        is_ignored == looked /\ ~expired
        s1 == IF expired THEN [s EXCEPT !.ignored = MapRemove(@, peer)] ELSE s
    IN  IF ~has_entry /\ ~is_ignored
          THEN LET s2 == Call(s1, <<"is_public", peer>>)
                   entry == fresh_entry(peer, origin, pub)
                   s3 == refresh_network_status(s2, entry, pub)
               IN  [s3 EXCEPT !.entries = MapInsert(@, peer, entry)]
          ELSE s1

\* a bug that forgets the excluded set
add_without_exclusion(s, peer, origin, time, pub) ==
    add_not_excluded(s, peer, origin, time, pub)

add(s, peer, origin, time, pub) ==
    LET has_entry == peer \in DOMAIN s.entries
        is_excluded == ~has_entry /\ peer \in s.excluded
    IN  IF is_excluded THEN s ELSE add_not_excluded(s, peer, origin, time, pub)

\* a bug that forgets the health when the last peer leaves
remove_forgetting_health(s, peer) ==
    LET s1 == prune_from_network_status(s, peer)
        s2 == [s1 EXCEPT !.entries = MapRemove(@, peer)]
    IN  IF DOMAIN s2.entries = {} THEN [s2 EXCEPT !.last_health = UNKNOWN] ELSE s2

\* a bug that prunes the quality sets and leaves the entry
remove_only_prunes(s, peer) == prune_from_network_status(s, peer)

remove(s, peer) ==
    LET s1 == prune_from_network_status(s, peer)
    IN  [s1 EXCEPT !.entries = MapRemove(@, peer)]

\* ping_result is <<"ok", timestamp>> or <<"err">>
\* a bug that stamps a successful heartbeat with the current time
heartbeat_recorded_now(existing, ping_result, time) ==
    [existing EXCEPT !.last_seen = time, !.heartbeats_sent = @ + 1]

\* network.rs:246-248
heartbeat_recorded(existing, ping_result, time) ==
    [existing EXCEPT
        !.last_seen = IF ping_result[1] = "err" THEN time ELSE ping_result[2],
        !.heartbeats_sent = @ + 1]

\* a bug that resets the count of successes on a failure
failure_recorded_resetting(entry) ==
    [entry EXCEPT
        !.heartbeats_succeeded = 0,
        !.backoff = Max(MAX_BACKOFF, powf_backoff(@)),
        !.quality = Max(0, @ - QUALITY_STEP)]

\* network.rs:252-253
failure_recorded(entry) ==
    [entry EXCEPT
        !.backoff = Max(MAX_BACKOFF, powf_backoff(@)),
        !.quality = Max(0, @ - QUALITY_STEP)]

\* a bug that leaves out the cap of the quality
success_recorded_unclamped(entry) ==
    [entry EXCEPT
        !.heartbeats_succeeded = @ + 1,
        !.backoff = MIN_BACKOFF,
        !.quality = @ + QUALITY_STEP]

\* network.rs:271-273
success_recorded(entry) ==
    [entry EXCEPT
        !.heartbeats_succeeded = @ + 1,
        !.backoff = MIN_BACKOFF,
        !.quality = Min(QUALITY_ONE, @ + QUALITY_STEP)]

\* a bug that also reports the evicted peer offline
close_and_remove_announcing(s, id) ==
    LET s1 == Call(Call(s, <<"close_connection", id>>), <<"on_peer_offline", id>>)
        s2 == prune_from_network_status(s1, id)
    IN  [s2 EXCEPT !.entries = MapRemove(@, id)]

\* a bug that closes the connection and keeps the entry
close_and_keep(s, id) ==
    prune_from_network_status(Call(s, <<"close_connection", id>>), id)

\* network.rs:256-258
close_and_remove(s, id) ==
    LET s1 == Call(s, <<"close_connection", id>>)
        s2 == prune_from_network_status(s1, id)
    IN  [s2 EXCEPT !.entries = MapRemove(@, id)]

\* a bug that reports every failure that is stored
peer_offline_always(s, entry) == Call(s, <<"on_peer_offline", entry.id>>)

\* if entry.quality < self.network_quality_threshold { on_peer_offline(&entry.id) }
peer_offline(s, entry) ==
    IF entry.quality < s.network_quality_threshold
      THEN Call(s, <<"on_peer_offline", entry.id>>)
      ELSE s

\* a bug that leaves out the return and goes on as for a peer of better quality
ignore_and_go_on(s, entry, time, pub) ==
    LET s0 == [s EXCEPT !.ignored = MapInsert(@, entry.id, time)]
        s1 == peer_offline(s0, entry)
        s2 == refresh_network_status(s1, entry, pub)
    IN  [s2 EXCEPT !.entries = MapInsert(@, entry.id, entry)]

\* a bug that drops the peer it ignores, as the lines commented out would
ignore_and_remove(s, entry, time, pub) ==
    LET s0 == [s EXCEPT !.ignored = MapInsert(@, entry.id, time)]
        s1 == prune_from_network_status(s0, entry.id)
    IN  [s1 EXCEPT !.entries = MapRemove(@, entry.id)]

\* a bug that stores the entry of the peer it ignores without refreshing the sets
ignore_and_store(s, entry, time, pub) ==
    [s EXCEPT !.ignored = MapInsert(@, entry.id, time),
              !.entries = MapInsert(@, entry.id, entry)]

\* network.rs:263-267: the peer is put on the ignore list and update returns
ignore_and_return(s, entry, time, pub) ==
    [s EXCEPT !.ignored = MapInsert(@, entry.id, time)]

update_existing(s, peer, ping_result, time, pub) ==
    LET e1 == heartbeat_recorded(s.entries[peer], ping_result, time)
    IN  IF ping_result[1] = "err"
          THEN
            LET e2 == failure_recorded(e1)
            IN  IF 2 * e2.quality < QUALITY_STEP
                  THEN close_and_remove(s, e2.id)
                  ELSE IF e2.quality < BAD_QUALITY
                    THEN ignore_and_return(s, e2, time, pub)
                    ELSE
                      LET s1 == peer_offline(s, e2)
                          s2 == refresh_network_status(s1, e2, pub)
                      IN  [s2 EXCEPT !.entries = MapInsert(@, e2.id, e2)]
          ELSE
            LET e2 == success_recorded(e1)
                s2 == refresh_network_status(s, e2, pub)
            IN  [s2 EXCEPT !.entries = MapInsert(@, e2.id, e2)]

\* a bug that puts a peer it does not know on the ignore list
update_ignoring_unknown(s, peer, ping_result, time, pub) ==
    IF peer \in DOMAIN s.entries
      THEN update_existing(s, peer, ping_result, time, pub)
      ELSE [s EXCEPT !.ignored = MapInsert(@, peer, time)]

update(s, peer, ping_result, time, pub) ==
    IF peer \in DOMAIN s.entries
      THEN update_existing(s, peer, ping_result, time, pub)
      ELSE s

\* the orders in which entries.values() may hand out the values of a HashMap with
\* these keys: the order of a HashMap's iterator is arbitrary
IterationOrders(keys) ==
    {order \in [1..Cardinality(keys) -> keys] :
        \A i, j \in 1..Cardinality(keys) : order[i] = order[j] => i = j}

\* entries.values().filter(f).map(|x| x.id.clone()).collect(); the closure f is a
\* function from the values to BOOLEAN
filter(s, f, order) ==
    LET values == [i \in 1..Len(order) |-> s.entries[order[i]]]
        kept == SelectSeq(values, LAMBDA v : f[v])
    IN  [i \in 1..Len(kept) |-> kept[i].id]

\* slice::sort_by: a stable sort that asks compare only whether it answers Less, so
\* an element comes before another one when it compares Less to it, or when neither
\* compares Less to the other and it stood before it; the closure compare is a
\* function from pairs of elements to an Ordering
sort_by(data, compare) ==
    LET before(j, i) ==
            \/ compare[data[j], data[i]] = "Less"
            \/ compare[data[i], data[j]] # "Less" /\ j < i
        place(i) == 1 + Cardinality({j \in 1..Len(data) : j # i /\ before(j, i)})
    IN  [k \in 1..Len(data) |-> data[CHOOSE i \in 1..Len(data) : place(i) = k]]

\* the closure |v| v.next_ping() < threshold on the values of entries
is_due(s, threshold) ==
    [v \in {s.entries[peer] : peer \in DOMAIN s.entries} |-> next_ping(v) < threshold]

\* a bug that returns the peers in the order of the map
find_peers_to_ping_unsorted(s, threshold, order) ==
    filter(s, is_due(s, threshold), order)

find_peers_to_ping(s, threshold, order) ==
    LET data == filter(s, is_due(s, threshold), order)
        compare == [a, b \in DOMAIN s.entries |->
                      IF s.entries[a].last_seen < s.entries[b].last_seen
                        THEN "Less" ELSE "Greater"]
    IN  sort_by(data, compare)

(***************************************************************************)
(* PRP (prp.rs). Byte buffers are sequences of 0..255. A Result is         *)
(* <<"ok", value>> or <<"err", error, ...>>.                               *)
(***************************************************************************)
\* a ^ b on bytes
RECURSIVE xor(_, _)
xor(a, b) ==
    IF a = 0 /\ b = 0 THEN 0
    ELSE ((a + b) % 2) + 2 * xor(a \div 2, b \div 2)

\* &s[from..to] of Rust, with the indices of Rust (from 0, to excluded)
Slice(s, from, to) == SubSeq(s, from + 1, to)

\* a number that depends on every byte of s and on its place
RECURSIVE Weigh(_)
Weigh(s) ==
    IF s = <<>> THEN 0
    ELSE (Len(s) * (s[Len(s)] + 1) + Weigh(SubSeq(s, 1, Len(s) - 1))) % 65521

\* a keyed MAC with an output of n bytes. The primitive is not part of prp.rs; any
\* function of key and data stands for it.
calculate_mac_of(n, key, data) ==
    LET w == Weigh(key) + 31 * Weigh(data)
    IN  <<"ok", [i \in 1..n |-> (w + 7 * i) % 256]>>

\* primitives::calculate_mac: the keyed MAC of MAC_LENGTH bytes
calculate_mac(key, data) == calculate_mac_of(MAC_LENGTH, key, data)

\* primitives::SimpleStreamCipher: new(key, iv), set_block_counter and apply, which
\* xors the keystream of (key, iv, block counter) onto the buffer. The primitive is
\* not part of prp.rs; any keystream that is a function of the three stands for it.
SimpleStreamCipherNew(key, iv) == <<"ok", [key |-> key, iv |-> iv, block_counter |-> 0]>>

set_block_counter(cipher, counter) == [cipher EXCEPT !.block_counter = counter]

keystream(cipher) ==
    LET w == Weigh(cipher.key) + 3 * Weigh(cipher.iv) + (cipher.block_counter % 251)
    IN  [i \in Nat |-> (w + 11 * i) % 256]

apply(cipher, buffer) ==
    LET stream == keystream(cipher)
    IN  [i \in 1..Len(buffer) |-> xor(buffer[i], stream[i])]

\* u32::from_le_bytes; the bytes of the IVs drawn are below 128, which keeps it
\* below 2^31
from_le_bytes(b) == b[1] + 256 * b[2] + 65536 * b[3] + 16777216 * b[4]

InvalidInputValue == <<"err", "InvalidInputValue">>
InvalidParameterSize(name, expected) == <<"err", "InvalidParameterSize", name, expected>>

\* a bug that looks at the IV before the key
PRPNew_iv_first(key, iv) ==
    IF Len(iv) # PRP_IV_LENGTH
      THEN InvalidParameterSize("iv", PRP_IV_LENGTH)
    ELSE IF Len(key) # PRP_KEY_LENGTH
      THEN InvalidParameterSize("key", PRP_KEY_LENGTH)
    ELSE <<"ok",
           [keys |-> [r \in 1..4 |->
                        Slice(key, (r - 1) * PRP_INTERMEDIATE_KEY_LENGTH,
                                   r * PRP_INTERMEDIATE_KEY_LENGTH)],
            ivs |-> [r \in 1..4 |->
                        Slice(iv, (r - 1) * PRP_INTERMEDIATE_IV_LENGTH,
                                  r * PRP_INTERMEDIATE_IV_LENGTH)]]>>

PRPNew(key, iv) ==
    IF Len(key) # PRP_KEY_LENGTH
      THEN InvalidParameterSize("key", PRP_KEY_LENGTH)
    ELSE IF Len(iv) # PRP_IV_LENGTH
      THEN InvalidParameterSize("iv", PRP_IV_LENGTH)
    ELSE <<"ok",
           [keys |-> [r \in 1..4 |->
                        Slice(key, (r - 1) * PRP_INTERMEDIATE_KEY_LENGTH,
                                   r * PRP_INTERMEDIATE_KEY_LENGTH)],
            ivs |-> [r \in 1..4 |->
                        Slice(iv, (r - 1) * PRP_INTERMEDIATE_IV_LENGTH,
                                  r * PRP_INTERMEDIATE_IV_LENGTH)]]>>

\* a bug that keeps only the bytes both have
xor_inplace_zipped(a, b) ==
    LET bound == IF Len(a) > Len(b) THEN Len(b) ELSE Len(a)
    IN  [i \in 1..bound |-> xor(a[i], b[i])]

\* a[i] ^= b[i] for the indices both have
xor_inplace(a, b) ==
    LET bound == IF Len(a) > Len(b) THEN Len(b) ELSE Len(a)
    IN  [i \in 1..Len(a) |-> IF i <= bound THEN xor(a[i], b[i]) ELSE a[i]]

\* the round functions give <<"ok", data after the round>>, or the error of the
\* primitive
\* a bug that takes the MAC over the head
xor_hash_of_head(res, data) ==
    IF res[1] = "err" THEN res
    ELSE <<"ok", xor_inplace(data,
                   calculate_mac_of(Len(res[2]), <<>>, Slice(data, 0, PRP_MIN_LENGTH))[2])>>

\* xor_hash once calculate_mac has returned res
xor_hash_with(res, data) ==
    IF res[1] = "err" THEN res ELSE <<"ok", xor_inplace(data, res[2])>>

xor_hash(data, key, iv) ==
    xor_hash_with(calculate_mac(key \o iv, Slice(data, PRP_MIN_LENGTH, Len(data))), data)

\* a bug that keys the cipher with the round key alone
xor_keystream_plain_key(data, key, iv) ==
    LET made == SimpleStreamCipherNew(key, Slice(iv, 4, Len(iv)))
        block_counter == from_le_bytes(Slice(iv, 0, 4))
        cipher == set_block_counter(made[2], block_counter)
    IN  IF made[1] = "err" THEN made
        ELSE <<"ok", Slice(data, 0, PRP_MIN_LENGTH)
                        \o apply(cipher, Slice(data, PRP_MIN_LENGTH, Len(data)))>>

\* the round key after xor_keystream: it is a shared slice, and the head is XORed
\* into key_cpy = Vec::from(key)
key_kept(key, data) == key

xor_keystream(data, key, iv) ==
    LET key_cpy == xor_inplace(key, Slice(data, 0, PRP_MIN_LENGTH))
        made == SimpleStreamCipherNew(key_cpy, Slice(iv, 4, Len(iv)))
        block_counter == from_le_bytes(Slice(iv, 0, 4))
        cipher == set_block_counter(made[2], block_counter)
    IN  IF made[1] = "err" THEN made
        ELSE <<"ok", Slice(data, 0, PRP_MIN_LENGTH)
                        \o apply(cipher, Slice(data, PRP_MIN_LENGTH, Len(data)))>>

\* a bug that runs the rounds on the buffer of the caller
borrowed_mutably(input, res) == IF res[1] = "ok" THEN res[2] ELSE input

\* the buffer of the caller after forward or inverse returned res: they take it as
\* a shared slice and run the rounds on a copy of it (Vec::from)
borrowed(input, res) == input

\* one call of a round function: <<name, key, iv>> on data
round(data, call) ==
    IF call[1] = "xor_keystream"
      THEN xor_keystream(data, call[2], call[3])
      ELSE xor_hash(data, call[2], call[3])

\* the calls made one after the other on data; a call that fails ends them with its
\* error, as the ? of Rust does. result is the data after the last call or the
\* error, made the calls that were made
RECURSIVE apply_rounds(_, _)
apply_rounds(data, todo) ==
    IF todo = <<>> THEN [result |-> <<"ok", data>>, made |-> <<>>]
    ELSE LET res == round(data, Head(todo))
             rest == apply_rounds(res[2], Tail(todo))
         IN  IF res[1] = "err"
               THEN [result |-> res, made |-> <<Head(todo)>>]
               ELSE [result |-> rest.result, made |-> <<Head(todo)>> \o rest.made]

\* a bug that starts forward with xor_hash
forward_calls_hash_first(p) ==
    << <<"xor_hash", p.keys[1], p.ivs[1]>>,
       <<"xor_keystream", p.keys[2], p.ivs[2]>>,
       <<"xor_hash", p.keys[3], p.ivs[3]>>,
       <<"xor_keystream", p.keys[4], p.ivs[4]>> >>

\* the calls of forward (prp.rs:79-82); keys[0] of Rust is keys[1] here
forward_calls(p) ==
    << <<"xor_keystream", p.keys[1], p.ivs[1]>>,
       <<"xor_hash", p.keys[2], p.ivs[2]>>,
       <<"xor_keystream", p.keys[3], p.ivs[3]>>,
       <<"xor_hash", p.keys[4], p.ivs[4]>> >>

\* the calls of inverse (prp.rs:97-100)
inverse_calls(p) ==
    << <<"xor_hash", p.keys[4], p.ivs[4]>>,
       <<"xor_keystream", p.keys[3], p.ivs[3]>>,
       <<"xor_hash", p.keys[2], p.ivs[2]>>,
       <<"xor_keystream", p.keys[1], p.ivs[1]>> >>

\* the four rounds of forward (prp.rs:76-84)
forward_rounds(p, plaintext) == apply_rounds(plaintext, forward_calls(p)).result

\* a bug that rejects an input of the minimal length
forward_rejecting_min_length(p, plaintext) ==
    IF Len(plaintext) <= PRP_MIN_LENGTH
      THEN InvalidInputValue
      ELSE forward_rounds(p, plaintext)

forward(p, plaintext) ==
    IF Len(plaintext) < PRP_MIN_LENGTH
      THEN InvalidInputValue
      ELSE forward_rounds(p, plaintext)

\* the four rounds of inverse (prp.rs:94-102)
inverse_rounds(p, ciphertext) == apply_rounds(ciphertext, inverse_calls(p)).result

\* a bug that runs the rounds of forward to invert
inverse_in_forward_order(p, ciphertext) ==
    IF Len(ciphertext) < PRP_MIN_LENGTH
      THEN InvalidInputValue
      ELSE forward_rounds(p, ciphertext)

inverse(p, ciphertext) ==
    IF Len(ciphertext) < PRP_MIN_LENGTH
      THEN InvalidInputValue
      ELSE inverse_rounds(p, ciphertext)

\* the calls of round functions that forward and inverse make on an input
forward_made(p, plaintext) ==
    IF Len(plaintext) < PRP_MIN_LENGTH
      THEN <<>>
      ELSE apply_rounds(plaintext, forward_calls(p)).made

inverse_made(p, ciphertext) ==
    IF Len(ciphertext) < PRP_MIN_LENGTH
      THEN <<>>
      ELSE apply_rounds(ciphertext, inverse_calls(p)).made

(***************************************************************************)
(* The state machine: a Network driven by its owner.                       *)
(***************************************************************************)
IsNet(s) ==
    /\ entries = s.entries
    /\ ignored = s.ignored
    /\ excluded = s.excluded
    /\ network_quality_threshold = s.network_quality_threshold
    /\ good_quality_public = s.good_quality_public
    /\ bad_quality_public = s.bad_quality_public
    /\ good_quality_non_public = s.good_quality_non_public
    /\ bad_quality_non_public = s.bad_quality_non_public
    /\ last_health = s.last_health
    /\ metric_network_health = s.metric_network_health
    /\ metric_peers_by_quality = s.metric_peers_by_quality
    /\ metric_peer_count = s.metric_peer_count
    /\ calls = s.calls

Op(name, peer, result) ==
    [name |-> name, peer |-> peer, result |-> result,
     registered |-> peer \in DOMAIN entries]

\* no PRP instance yet
NoPRP == [built |-> FALSE]

\* Network::new(me, threshold, api). After a panic there is no Network: the variables
\* hold what its fields were about to get, and no operation follows.
Init ==
    /\ \E threshold \in RequestedThresholds :
          /\ IsNet(NetworkNew(me, threshold))
          /\ op = [name |-> "new", peer |-> me, threshold |-> threshold,
                   result |-> IF new_panics(threshold) THEN "panic" ELSE "none",
                   registered |-> FALSE]
    /\ is_public \in [Peers -> BOOLEAN]
    /\ now = 0
    /\ found = <<>>
    /\ prp = NoPRP
    /\ prp_op = [name |-> "none"]

\* the constructor returned a Network
Constructed == op.name = "new" => op.result # "panic"

Add(peer, origin) ==
    /\ Constructed
    /\ Commit(add(Self, peer, origin, now, is_public))
    /\ op' = Op("add", peer, "none")
    /\ found' = <<>>
    /\ UNCHANGED <<is_public, now, prpVars>>

Remove(peer) ==
    /\ Constructed
    /\ Commit(remove(Self, peer))
    /\ op' = Op("remove", peer, "none")
    /\ found' = <<>>
    /\ UNCHANGED <<is_public, now, prpVars>>

RECURSIVE SentBy(_)
SentBy(ps) ==
    IF ps = {} THEN 0
    ELSE LET peer == CHOOSE x \in ps : TRUE
         IN  entries[peer].heartbeats_sent + SentBy(ps \ {peer})

\* the owner feeds results for registered peers while the entries record fewer than
\* MaxHeartbeats heartbeats
MayUpdate(peer) ==
    peer \in DOMAIN entries => SentBy(DOMAIN entries) < MaxHeartbeats

\* timestamps a successful ping may carry
OkTimestamps == {now} \cup (IF now > 0 THEN {now - ClockStepMs} ELSE {})

\* update(peer, ping_result) at the current time
Update(peer, ping_result) ==
    /\ Constructed
    /\ Commit(update(Self, peer, ping_result, now, is_public))
    /\ op' = Op("update", peer, ping_result[1])
    /\ found' = <<>>
    /\ UNCHANGED <<is_public, now, prpVars>>

UpdateOk(peer, ts) == MayUpdate(peer) /\ Update(peer, <<"ok", ts>>)

UpdateErr(peer) == MayUpdate(peer) /\ Update(peer, <<"err">>)

\* time passes between two operations
Tick ==
    /\ Constructed
    /\ now < MaxTicks * ClockStepMs
    /\ now' = now + ClockStepMs
    /\ calls' = <<>>
    /\ op' = [name |-> "tick", peer |-> me, result |-> "none", registered |-> FALSE]
    /\ found' = <<>>
    /\ UNCHANGED <<netVars, metricVars, is_public, prpVars>>

Next ==
    \/ \E peer \in Peers, origin \in Origins : Add(peer, origin)
    \/ \E peer \in Peers : Remove(peer)
    \/ \E peer \in Peers, ts \in OkTimestamps : UpdateOk(peer, ts)
    \/ \E peer \in Peers : UpdateErr(peer)
    \/ Tick

Spec == Init /\ [][Next]_vars

\* thresholds the heartbeat asks with: around the time the next ping of a peer just
\* seen is due, with the smallest and with the largest delay
PingThresholds ==
    {now + delay + d : delay \in {MIN_BACKOFF_DELAY_MS, MAX_DELAY_MS}, d \in {0, 1}}

FindPeersToPing(threshold) ==
    /\ Constructed
    /\ \E order \in IterationOrders(DOMAIN entries) :
          found' = find_peers_to_ping(Self, threshold, order)
    /\ calls' = <<>>
    /\ op' = [name |-> "find_peers_to_ping", threshold |-> threshold]
    /\ UNCHANGED <<netVars, metricVars, is_public, now, prpVars>>

\* the owner and the heartbeat, which asks whom to ping
NextWithPing ==
    \/ Next
    \/ \E threshold \in PingThresholds : FindPeersToPing(threshold)

PingSpec == Init /\ [][NextWithPing]_vars

\* A long run of heartbeats with one remote peer: up to MaxPeerHeartbeats results are
\* recorded for it, enough for its quality to climb to 1.0 and for failures to
\* follow one another.
MayUpdateLong(peer) ==
    peer \in DOMAIN entries => entries[peer].heartbeats_sent < MaxPeerHeartbeats

LongNextOnPeer(peer) ==
    \/ \E origin \in Origins : Add(peer, origin)
    \/ Remove(peer)
    \/ \E ts \in OkTimestamps : MayUpdateLong(peer) /\ Update(peer, <<"ok", ts>>)
    \/ MayUpdateLong(peer) /\ Update(peer, <<"err">>)
    \/ Tick

LongSpec == Init /\ [][LongNextOnPeer("p1")]_vars

\* The heartbeat driver working on one remote peer, whose failed pings keep being
\* delivered: a failure that can be recorded for the peer eventually is.
NextOnPeer(peer) ==
    \/ \E origin \in Origins : Add(peer, origin)
    \/ Remove(peer)
    \/ \E ts \in OkTimestamps : UpdateOk(peer, ts)
    \/ UpdateErr(peer)
    \/ Tick

FairSpec == Init /\ [][NextOnPeer("p1")]_vars /\ WF_vars(UpdateErr("p1"))

(***************************************************************************)
(* The PRP driven by its caller.                                           *)
(***************************************************************************)
Fill(byte, n) == [i \in 1..n |-> byte]
\* bytes below 128 that differ from place to place
Ramp(n) == [i \in 1..n |-> (7 * i) % 128]

\* keys and IVs handed to PRP::new: of the right size (all zero as in the tests, and
\* one whose round keys differ) and one byte short or long
Keys ==
    {Fill(0, PRP_KEY_LENGTH), Ramp(PRP_KEY_LENGTH),
     Fill(0, PRP_KEY_LENGTH - 1), Fill(0, PRP_KEY_LENGTH + 1)}
IVs ==
    {Fill(0, PRP_IV_LENGTH), Ramp(PRP_IV_LENGTH),
     Fill(0, PRP_IV_LENGTH - 1), Fill(0, PRP_IV_LENGTH + 1)}

\* buffers handed to forward and inverse: empty, one byte short, of the minimal
\* length and up to MaxTail bytes longer
InputLengths ==
    {0, PRP_MIN_LENGTH - 1} \cup {PRP_MIN_LENGTH + k : k \in 0..MaxTail}
Buffers ==
    UNION {{Fill(0, n), Fill(1, n), Ramp(n)} : n \in InputLengths}

\* the buffer the last call returned, when it is the call named
Returned(name) ==
    IF prp_op.name = name /\ prp_op.result[1] = "ok" THEN {prp_op.result[2]} ELSE {}

PrpNew(key, iv) ==
    /\ LET made == PRPNew(key, iv)
       IN  /\ prp' = IF made[1] = "ok"
                        THEN [built |-> TRUE, keys |-> made[2].keys, ivs |-> made[2].ivs]
                        ELSE prp
           /\ prp_op' = [name |-> "new", input |-> <<key, iv>>, result |-> made]
    /\ UNCHANGED <<netVars, metricVars, is_public, now, calls, op, found>>

\* input is what the caller's buffer holds at the call, buffer what it holds after
\* the call, rounds the calls of round functions made
Forward(plaintext) ==
    /\ prp.built
    /\ LET res == forward(prp, plaintext)
       IN  prp_op' = [name |-> "forward", input |-> plaintext,
                      buffer |-> borrowed(plaintext, res), result |-> res,
                      rounds |-> forward_made(prp, plaintext)]
    /\ UNCHANGED <<prp, netVars, metricVars, is_public, now, calls, op, found>>

Inverse(ciphertext) ==
    /\ prp.built
    /\ LET res == inverse(prp, ciphertext)
       IN  prp_op' = [name |-> "inverse", input |-> ciphertext,
                      buffer |-> borrowed(ciphertext, res), result |-> res,
                      rounds |-> inverse_made(prp, ciphertext)]
    /\ UNCHANGED <<prp, netVars, metricVars, is_public, now, calls, op, found>>

PrpNext ==
    \/ \E key \in Keys, iv \in IVs : PrpNew(key, iv)
    \/ \E plaintext \in Buffers \cup Returned("inverse") : Forward(plaintext)
    \/ \E ciphertext \in Buffers \cup Returned("forward") : Inverse(ciphertext)

\* the PRP next to a Network that nobody uses
PrpInit ==
    /\ Init
    /\ op.threshold = BAD_QUALITY
    /\ is_public = [peer \in Peers |-> FALSE]

PrpSpec == PrpInit /\ [][PrpNext]_vars

(***************************************************************************)
(* The round functions of the PRP, called as forward and inverse call      *)
(* them: on buffers of at least PRP_MIN_LENGTH bytes, with a round key and *)
(* a round IV.                                                             *)
(***************************************************************************)
RoundKeys == {Fill(0, PRP_INTERMEDIATE_KEY_LENGTH), Ramp(PRP_INTERMEDIATE_KEY_LENGTH)}
RoundIVs == {Fill(0, PRP_INTERMEDIATE_IV_LENGTH), Ramp(PRP_INTERMEDIATE_IV_LENGTH)}
RoundBuffers == {b \in Buffers : Len(b) >= PRP_MIN_LENGTH}

\* output lengths of MAC primitives: that of calculate_mac and longer ones
MacLengths == {MAC_LENGTH, MAC_LENGTH + 1, 2 * MAC_LENGTH}

\* xor_hash on data, linked with a MAC primitive of n bytes
XorHash(n, data, key, iv) ==
    /\ LET mac == calculate_mac_of(n, key \o iv, Slice(data, PRP_MIN_LENGTH, Len(data)))
       IN  prp_op' = [name |-> "xor_hash", input |-> data, key |-> key, iv |-> iv,
                      mac |-> mac, result |-> xor_hash_with(mac, data)]
    /\ UNCHANGED <<prp, netVars, metricVars, is_public, now, calls, op, found>>

\* key is the round key at the call, key_after the round key after the call
XorKeystream(data, key, iv) ==
    /\ prp_op' = [name |-> "xor_keystream", input |-> data, key |-> key, iv |-> iv,
                  key_after |-> key_kept(key, data),
                  result |-> xor_keystream(data, key, iv)]
    /\ UNCHANGED <<prp, netVars, metricVars, is_public, now, calls, op, found>>

RoundNext ==
    \/ \E n \in MacLengths, data \in RoundBuffers, key \in RoundKeys, iv \in RoundIVs :
          XorHash(n, data, key, iv)
    \/ \E data \in RoundBuffers, key \in RoundKeys, iv \in RoundIVs :
          XorKeystream(data, key, iv)

RoundSpec == PrpInit /\ [][RoundNext]_vars

(***************************************************************************)
(* Observations used by the properties.                                    *)
(***************************************************************************)
QualitySets ==
    <<good_quality_public, good_quality_non_public,
      bad_quality_public, bad_quality_non_public>>

\* the number of quality sets a peer is a member of
Memberships(peer) == Cardinality({i \in 1..4 : peer \in QualitySets[i]})

CallsOf(c, fn) == SelectSeq(c, LAMBDA x : x[1] = fn)

(***************************************************************************)
(* C1: every peer is a member of at most one of the four quality sets.     *)
(***************************************************************************)
C1_AtMostOneQualitySet == \A peer \in Peers : Memberships(peer) <= 1

(***************************************************************************)
(* C2: me is always excluded and never registered, and add(me, _) changes  *)
(* nothing and calls nothing.                                              *)
(***************************************************************************)
C2_SelfNeverRegistered ==
    /\ [](me \in excluded /\ me \notin DOMAIN entries)
    /\ [][(op'.name = "add" /\ op'.peer = me)
            => (UNCHANGED <<netVars, metricVars>> /\ calls' = <<>>)]_vars

C2_Witness ==
    /\ op.name = "add" /\ op.peer = me
    /\ Cardinality(DOMAIN entries) = 2

(***************************************************************************)
(* C3: when from some point on no update of a peer succeeds, and failed    *)
(* updates keep being delivered to it while it is registered, the peer is  *)
(* evicted again and again: close_connection is called for it and it       *)
(* leaves entries.                                                         *)
(***************************************************************************)
Evicted(peer) ==
    /\ op.name = "update" /\ op.peer = peer /\ op.result = "err"
    /\ CallsOf(calls, "close_connection") = << <<"close_connection", peer>> >>
    /\ peer \notin DOMAIN entries

C3_RepeatedFailuresEvict ==
    \A peer \in Peers \ {me} :
        ( /\ []<><<peer \in DOMAIN entries /\ UpdateErr(peer)>>_vars
          /\ <>[][\A ts \in OkTimestamps : ~UpdateOk(peer, ts)]_vars )
        => []<>Evicted(peer)

(***************************************************************************)
(* C4: no peer is a key of entries and of ignored at the same time.        *)
(***************************************************************************)
C4_EntriesIgnoredDisjoint == DOMAIN entries \cap DOMAIN ignored = {}

(***************************************************************************)
(* C5: after every operation that changes entries, health() is the health  *)
(* the rule derives from the four sets as they stand after the operation.  *)
(***************************************************************************)
C5_HealthFollowsSets ==
    [][entries' # entries =>
         last_health' = DeriveHealth(Cardinality(good_quality_public'),
                                     Cardinality(good_quality_non_public'),
                                     Cardinality(bad_quality_public'),
                                     is_public'[me])]_vars

(***************************************************************************)
(* C6: after remove(peer) the peer is in none of the four quality sets.    *)
(***************************************************************************)
C6_RemovePrunesAllSets == op.name = "remove" => Memberships(op.peer) = 0

(***************************************************************************)
(* C7: remove of a registered peer leaves has(peer) false and length() one *)
(* less; add then remove on a fresh manager leaves length() 0.             *)
(***************************************************************************)
C7_RemoveUnregisters ==
    [][(op'.name = "remove" /\ op'.registered) =>
          /\ op'.peer \notin DOMAIN entries'
          /\ Cardinality(DOMAIN entries') = Cardinality(DOMAIN entries) - 1]_vars

C7_Witness ==
    /\ op.name = "remove" /\ op.registered
    /\ Cardinality(DOMAIN entries) = 0

(***************************************************************************)
(* C8: once the health is known, a remove that leaves no registered peer   *)
(* leaves health() RED.                                                    *)
(***************************************************************************)
C8_NoPeersIsRed ==
    (op.name = "remove" /\ op.registered /\ DOMAIN entries = {}
        /\ last_health # UNKNOWN)
    => last_health = RED

(***************************************************************************)
(* C9: a step changes health() exactly when it calls                       *)
(* on_network_health_change, once, with the old and the new value.         *)
(***************************************************************************)
C9_HealthChangeNotified ==
    [][LET notified == CallsOf(calls', "on_network_health_change")
       IN  IF last_health' # last_health
             THEN notified = << <<"on_network_health_change", last_health, last_health'>> >>
             ELSE notified = <<>>]_vars

C9_Witness ==
    /\ CallsOf(calls, "on_network_health_change")
          = << <<"on_network_health_change", ORANGE, GREEN>> >>
    /\ last_health = GREEN

(***************************************************************************)
(* C10: update for a peer that is not registered changes nothing and calls *)
(* nothing, whether the result is Ok or Err.                               *)
(***************************************************************************)
C10_UpdateUnknownIsNoOp ==
    [][(op'.name = "update" /\ ~op'.registered)
          => (UNCHANGED <<netVars, metricVars>> /\ calls' = <<>>)]_vars

C10_Witness ==
    /\ op.name = "update" /\ ~op.registered /\ op.result = "err"
    /\ op.peer \in DOMAIN ignored
    /\ DOMAIN entries # {}

(***************************************************************************)
(* C11: update(peer, Ok(ts)) of a registered peer stores one more          *)
(* heartbeat sent and one more succeeded, last_seen = ts, backoff =        *)
(* MIN_BACKOFF and the quality raised by 0.1 up to 1.0, and the peer stays *)
(* registered.                                                             *)
(***************************************************************************)
C11_SuccessRecorded ==
    [][(op'.name = "update" /\ op'.result = "ok" /\ op'.registered) =>
          \A ts \in OkTimestamps :
             UpdateOk(op'.peer, ts) =>
                LET s == entries[op'.peer]
                IN  /\ op'.peer \in DOMAIN entries'
                    /\ entries'[op'.peer].heartbeats_sent = s.heartbeats_sent + 1
                    /\ entries'[op'.peer].heartbeats_succeeded
                          = s.heartbeats_succeeded + 1
                    /\ entries'[op'.peer].last_seen = ts
                    /\ entries'[op'.peer].backoff = MIN_BACKOFF
                    /\ entries'[op'.peer].quality
                          = Min(QUALITY_ONE, s.quality + QUALITY_STEP)]_vars

\* a second success, reported with a timestamp of the past
C11_Witness ==
    /\ op.name = "update" /\ op.result = "ok" /\ op.registered
    /\ op.peer \in DOMAIN entries
    /\ entries[op.peer].last_seen < now
    /\ entries[op.peer].heartbeats_succeeded > 1
    /\ entries[op.peer].quality = entries[op.peer].heartbeats_succeeded * QUALITY_STEP

(***************************************************************************)
(* C12: update(peer, Err) of a registered peer that leaves the peer        *)
(* registered stores one more heartbeat sent, last_seen = the current time *)
(* and the quality lowered by QUALITY_STEP down to 0.                      *)
(***************************************************************************)
C12_FailureRecorded ==
    [][(op'.name = "update" /\ op'.result = "err" /\ op'.registered
           /\ op'.peer \in DOMAIN entries') =>
          LET s == entries[op'.peer]
          IN  /\ entries'[op'.peer].heartbeats_sent = s.heartbeats_sent + 1
              /\ entries'[op'.peer].last_seen = now
              /\ entries'[op'.peer].quality = Max(0, s.quality - QUALITY_STEP)]_vars

(***************************************************************************)
(* C13: a failed update of a peer whose stored status counts two           *)
(* heartbeats, both succeeded (added, then two Ok), leaves                 *)
(* heartbeats_succeeded = 2 and backoff = MIN_BACKOFF stored; and no       *)
(* failed update changes the stored heartbeats_succeeded of a peer that    *)
(* stays registered.                                                       *)
(***************************************************************************)
C13_FailureKeepsSuccesses ==
    [][(op'.name = "update" /\ op'.result = "err" /\ op'.registered) =>
          LET peer == op'.peer
              s == entries[peer]
          IN  /\ (s.heartbeats_sent = 2 /\ s.heartbeats_succeeded = 2) =>
                    /\ peer \in DOMAIN entries'
                    /\ entries'[peer].heartbeats_succeeded = 2
                    /\ entries'[peer].backoff = MIN_BACKOFF
              /\ peer \in DOMAIN entries' =>
                    entries'[peer].heartbeats_succeeded = s.heartbeats_succeeded]_vars

\* the failure after two successes
C13_Witness ==
    /\ op.name = "update" /\ op.result = "err" /\ op.registered
    /\ op.peer \in DOMAIN entries
    /\ entries[op.peer].heartbeats_sent = 2
    /\ entries[op.peer].heartbeats_succeeded = 2
    /\ entries[op.peer].backoff = MIN_BACKOFF

(***************************************************************************)
(* C14: update(peer, Err) of a registered peer calls close_connection(peer)*)
(* exactly when the quality after the failure, max(0, q - 0.1), is below   *)
(* QUALITY_STEP / 2; then, and only then, the peer has left entries when   *)
(* update returns.                                                         *)
(***************************************************************************)
C14_CloseIffLowestQuality ==
    [][(op'.name = "update" /\ op'.result = "err" /\ op'.registered) =>
          LET peer == op'.peer
              quality == Max(0, entries[peer].quality - QUALITY_STEP)
              closed == CallsOf(calls', "close_connection")
          IN  IF 2 * quality < QUALITY_STEP
                THEN closed = << <<"close_connection", peer>> >>
                        /\ peer \notin DOMAIN entries'
                ELSE closed = <<>> /\ peer \in DOMAIN entries']_vars

\* an eviction while another peer stays registered
C14_Witness ==
    /\ op.name = "update" /\ op.result = "err" /\ op.registered
    /\ op.peer \notin DOMAIN entries
    /\ calls = << <<"close_connection", op.peer>> >>
    /\ DOMAIN entries # {}

(***************************************************************************)
(* C15: find_peers_to_ping(t) returns the registered peers whose next_ping *)
(* is less than t, each once and no other peer, in ascending order of      *)
(* their stored last_seen.                                                 *)
(***************************************************************************)
C15_PeersToPing ==
    op.name = "find_peers_to_ping" =>
       LET due == {peer \in DOMAIN entries : next_ping(entries[peer]) < op.threshold}
       IN  /\ {found[i] : i \in 1..Len(found)} = due
           /\ Len(found) = Cardinality(due)
           /\ \A i, j \in 1..Len(found) :
                 i < j => entries[found[i]].last_seen <= entries[found[j]].last_seen

\* two peers are due, one seen before the other and with another backoff, the later
\* one just in time
C15_Witness ==
    /\ op.name = "find_peers_to_ping"
    /\ \E peer \in DOMAIN entries : next_ping(entries[peer]) + 1 = op.threshold
    /\ Len(found) = 2
    /\ entries[found[1]].last_seen < entries[found[2]].last_seen
    /\ entries[found[1]].backoff # entries[found[2]].backoff

C18_GreenHasPublicAndNat ==
    last_health = GREEN =>
       /\ \E peer \in DOMAIN entries :
             entries[peer].is_public
                /\ entries[peer].quality >= network_quality_threshold
       /\ \E peer \in DOMAIN entries :
             ~entries[peer].is_public
                /\ entries[peer].quality >= network_quality_threshold

(***************************************************************************)
(* C19: while health() is ORANGE, entries holds a public peer whose stored *)
(* quality is below quality_threshold.                                     *)
(***************************************************************************)
C19_OrangeHasLowPublic ==
    last_health = ORANGE =>
       \E peer \in DOMAIN entries :
          entries[peer].is_public
             /\ entries[peer].quality < network_quality_threshold

(***************************************************************************)
(* C20: health() is UNKNOWN after construction, stays UNKNOWN through      *)
(* every operation but the first add that admits a peer, which makes it    *)
(* known, and is never UNKNOWN again from then on.                         *)
(***************************************************************************)
C20_UnknownUntilFirstAdd ==
    /\ last_health = UNKNOWN
    /\ [][LET admitted == /\ op'.name = "add"
                           /\ op'.peer \in DOMAIN entries' \ DOMAIN entries
           IN  IF last_health = UNKNOWN
                 THEN (last_health' # UNKNOWN) <=> admitted
                 ELSE last_health' # UNKNOWN]_vars

\* the health is still known after the last peer was removed
C20_Witness ==
    /\ op.name = "remove" /\ op.registered
    /\ DOMAIN entries = {}
    /\ last_health \in {RED, ORANGE, YELLOW, GREEN}
    /\ DOMAIN ignored # {}

(***************************************************************************)
(* C21: Network::new panics when the threshold is below BAD_QUALITY; with  *)
(* any other threshold, BAD_QUALITY itself included, it gives a manager    *)
(* with no entries, nothing ignored, four empty quality sets, excluded =   *)
(* {me} and health UNKNOWN.                                                *)
(***************************************************************************)
C21_NewPanicsBelowBadQuality ==
    op.name = "new" =>
       IF op.threshold < BAD_QUALITY
         THEN op.result = "panic"
         ELSE /\ op.result = "none"
              /\ DOMAIN entries = {} /\ DOMAIN ignored = {}
              /\ \A i \in 1..4 : QualitySets[i] = {}
              /\ excluded = {me}
              /\ last_health = UNKNOWN

\* the constructor asked for 0.19
C21_Witness ==
    /\ op.name = "new" /\ op.result = "panic"
    /\ op.threshold = BAD_QUALITY - 1

(***************************************************************************)
(* C22: the stored quality of every registered peer lies in [0.0, 1.0].    *)
(***************************************************************************)
C22_QualityInUnitInterval ==
    \A peer \in DOMAIN entries :
       0 <= entries[peer].quality /\ entries[peer].quality <= QUALITY_ONE

\* a success recorded for a peer whose quality was 1.0 already
C22_Witness ==
    /\ op.name = "update" /\ op.result = "ok" /\ op.registered
    /\ entries[op.peer].quality = QUALITY_ONE
    /\ entries[op.peer].heartbeats_succeeded * QUALITY_STEP > QUALITY_ONE

(***************************************************************************)
(* C23: the stored backoff of every registered peer lies between           *)
(* MIN_BACKOFF (2) and MAX_BACKOFF (300).                                  *)
(***************************************************************************)
C23_BackoffInRange ==
    \A peer \in DOMAIN entries :
       MIN_BACKOFF <= entries[peer].backoff /\ entries[peer].backoff <= MAX_BACKOFF

(***************************************************************************)
(* C24: add of a peer that is not registered, not excluded and not ignored *)
(* registers it: has(peer) holds, length() is one more, the stored status  *)
(* is fresh (quality 0.0, backoff MIN_BACKOFF, last_seen 0, no heartbeats) *)
(* with is_public as is_public(peer) answers, and the peer is in the bad   *)
(* set of its publicity.                                                   *)
(***************************************************************************)
C24_AddRegistersFresh ==
    [][(op'.name = "add" /\ ~op'.registered /\ op'.peer \notin excluded
           /\ op'.peer \notin DOMAIN ignored) =>
          LET peer == op'.peer
          IN  /\ peer \in DOMAIN entries'
              /\ Cardinality(DOMAIN entries') = Cardinality(DOMAIN entries) + 1
              /\ entries'[peer].quality = 0
              /\ entries'[peer].backoff = MIN_BACKOFF
              /\ entries'[peer].last_seen = 0
              /\ entries'[peer].heartbeats_sent = 0
              /\ entries'[peer].heartbeats_succeeded = 0
              /\ entries'[peer].is_public = is_public[peer]
              /\ IF is_public[peer]
                    THEN peer \in bad_quality_public'
                    ELSE peer \in bad_quality_non_public']_vars

\* a public peer joins a registered one
C24_Witness ==
    /\ op.name = "add" /\ ~op.registered
    /\ op.peer \in DOMAIN entries /\ op.peer \notin DOMAIN ignored
    /\ entries[op.peer].is_public
    /\ op.peer \in bad_quality_public
    /\ Cardinality(DOMAIN entries) = 2

(***************************************************************************)
(* C25: add of a peer that is not registered and is ignored since ts: when *)
(* ts + IGNORE_TIMEFRAME is earlier than the current time the ignore entry *)
(* is dropped and the peer is admitted as a fresh peer; otherwise the call *)
(* changes nothing.                                                        *)
(***************************************************************************)
C25_IgnoreExpiresOnAdd ==
    [][(op'.name = "add" /\ ~op'.registered /\ op'.peer \in DOMAIN ignored) =>
          LET peer == op'.peer
          IN  IF ignored[peer] + IGNORE_TIMEFRAME_MS < now
                THEN /\ peer \notin DOMAIN ignored'
                     /\ peer \in DOMAIN entries'
                     /\ entries'[peer].quality = 0
                     /\ entries'[peer].heartbeats_sent = 0
                     /\ entries'[peer].last_seen = 0
                     /\ entries'[peer].backoff = MIN_BACKOFF
                ELSE UNCHANGED <<netVars, metricVars>> /\ calls' = <<>>]_vars

\* an add exactly IGNORE_TIMEFRAME after the peer was ignored: still ignored
C25_Witness ==
    /\ op.name = "add" /\ ~op.registered
    /\ op.peer \in DOMAIN ignored /\ op.peer \notin DOMAIN entries
    /\ ignored[op.peer] + IGNORE_TIMEFRAME_MS = now

(***************************************************************************)
(* C26: one update calls close_connection and on_peer_offline at most once *)
(* all together, and calls on_network_health_change, if it does, after     *)
(* that call.                                                              *)
(***************************************************************************)
C26_OneSideEffectThenHealth ==
    [][op'.name = "update" =>
          LET effects == {i \in 1..Len(calls') :
                            calls'[i][1] \in {"close_connection", "on_peer_offline"}}
              changes == {i \in 1..Len(calls') :
                            calls'[i][1] = "on_network_health_change"}
          IN  /\ Cardinality(effects) <= 1
              /\ \A i \in effects, j \in changes : i < j]_vars

\* a failure that reports the peer offline and changes the health
C26_Witness ==
    /\ op.name = "update" /\ op.result = "err"
    /\ Len(calls) >= 2
    /\ calls[1] = <<"on_peer_offline", op.peer>>
    /\ calls[Len(calls)][1] = "on_network_health_change"

(***************************************************************************)
(* C27: each time the gauge core_gauge_num_peers is set (by an add that    *)
(* admits a peer, by an update whose result is stored), its value is the   *)
(* number of registered peers, the peer added or updated included.         *)
(***************************************************************************)
C27_PeerCountIsLength ==
    [][LET peer == op'.peer
           admitted == op'.name = "add" /\ peer \in DOMAIN entries' \ DOMAIN entries
           stored == /\ op'.name = "update" /\ op'.registered
                     /\ peer \in DOMAIN entries'
                     /\ entries'[peer].heartbeats_sent
                           = entries[peer].heartbeats_sent + 1
       IN  (admitted \/ stored) =>
              metric_peer_count' = Cardinality(DOMAIN entries')]_vars


(***************************************************************************)
(* The PRP.                                                                *)
(***************************************************************************)
\* the last call is forward or inverse on a buffer of at least PRP_MIN_LENGTH bytes
Accepted(name) ==
    /\ prp_op.name = name
    /\ Len(prp_op.input) >= PRP_MIN_LENGTH

\* C28: for every key of 128 bytes, every IV of 64 bytes and every plaintext of at
\* least 32 bytes (32 included), forward succeeds and inverse, given the
\* ciphertext, succeeds and returns the plaintext.
C28_RoundTrip ==
    Accepted("forward") =>
        /\ prp_op.result[1] = "ok"
        /\ inverse(prp, prp_op.result[2]) = <<"ok", prp_op.input>>

\* inverse has returned a plaintext from a ciphertext that forward returned, of a
\* buffer with a tail, under a key whose round keys differ
C28_Witness ==
    /\ Accepted("inverse")
    /\ Len(prp_op.input) > PRP_MIN_LENGTH
    /\ prp.keys[1] # prp.keys[2]
    /\ prp_op.input \notin Buffers
    /\ prp_op.result[1] = "ok"
    /\ prp_op.result[2] \in Buffers
    /\ prp_op.result[2] # prp_op.input

\* C29: for every accepted input (at least 32 bytes), the output of forward and the
\* output of inverse have exactly the length of the input.
C29_LengthPreserved ==
    Accepted("forward") \/ Accepted("inverse") =>
        /\ prp_op.result[1] = "ok"
        /\ Len(prp_op.result[2]) = Len(prp_op.input)

\* inverse has returned a buffer as long as the longest input
C29_Witness ==
    /\ Accepted("inverse")
    /\ Len(prp_op.input) = PRP_MIN_LENGTH + MaxTail
    /\ prp_op.result[1] = "ok"
    /\ Len(prp_op.result[2]) = PRP_MIN_LENGTH + MaxTail

\* C30: forward and inverse return the error InvalidInputValue, and no output, for
\* every input shorter than 32 bytes, and accept every input of at least 32 bytes
\* (32 included).
C30_RejectShort ==
    prp_op.name \in {"forward", "inverse"} =>
        IF Len(prp_op.input) < PRP_MIN_LENGTH
          THEN prp_op.result = InvalidInputValue
          ELSE prp_op.result[1] = "ok"

\* forward has rejected a buffer one byte short, after it accepted one of the
\* minimal length
C30_Witness ==
    /\ prp_op.name = "forward"
    /\ Len(prp_op.input) = PRP_MIN_LENGTH - 1
    /\ prp_op.result = InvalidInputValue
    /\ forward(prp, Fill(1, PRP_MIN_LENGTH))[1] = "ok"

\* C31: PRP::new(key, iv) returns InvalidParameterSize naming "key" when the key is
\* not exactly 128 bytes, otherwise InvalidParameterSize naming "iv" when the IV is
\* not exactly 64 bytes, and otherwise succeeds with round key i = key[32i..32i+32]
\* and round IV i = iv[16i..16i+16] for i in 0..3.
C31_NewChecksSizes ==
    prp_op.name = "new" =>
        LET key == prp_op.input[1]
            iv == prp_op.input[2]
            res == prp_op.result
        IN  IF Len(key) # PRP_KEY_LENGTH
              THEN res[1] = "err" /\ res[2] = "InvalidParameterSize" /\ res[3] = "key"
            ELSE IF Len(iv) # PRP_IV_LENGTH
              THEN res[1] = "err" /\ res[2] = "InvalidParameterSize" /\ res[3] = "iv"
            ELSE /\ res[1] = "ok"
                 /\ prp.built
                 /\ \A i \in 0..3 :
                       /\ Len(prp.keys[i + 1]) = PRP_INTERMEDIATE_KEY_LENGTH
                       /\ Len(prp.ivs[i + 1]) = PRP_INTERMEDIATE_IV_LENGTH
                       /\ \A j \in 1..PRP_INTERMEDIATE_KEY_LENGTH :
                             prp.keys[i + 1][j] = key[PRP_INTERMEDIATE_KEY_LENGTH * i + j]
                       /\ \A j \in 1..PRP_INTERMEDIATE_IV_LENGTH :
                             prp.ivs[i + 1][j] = iv[PRP_INTERMEDIATE_IV_LENGTH * i + j]

\* PRP::new has split a key and an IV whose four parts differ
C31_Witness ==
    /\ prp_op.name = "new"
    /\ prp_op.result[1] = "ok"
    /\ Cardinality({prp.keys[r] : r \in 1..4}) = 4
    /\ Cardinality({prp.ivs[r] : r \in 1..4}) = 4

C34_RoundOrder ==
    LET r(name, i) == <<name, prp.keys[i + 1], prp.ivs[i + 1]>>
    IN  /\ Accepted("forward") =>
              prp_op.rounds = <<r("xor_keystream", 0), r("xor_hash", 1),
                                r("xor_keystream", 2), r("xor_hash", 3)>>
        /\ Accepted("inverse") =>
              prp_op.rounds = <<r("xor_hash", 3), r("xor_keystream", 2),
                                r("xor_hash", 1), r("xor_keystream", 0)>>

\* inverse has run its four rounds under round keys and IVs that all differ, on a
\* buffer with a tail, where the order of the rounds shows in the result
C34_Witness ==
    /\ Accepted("inverse")
    /\ Len(prp_op.input) > PRP_MIN_LENGTH
    /\ Len(prp_op.rounds) = 4
    /\ Cardinality({prp.keys[r] : r \in 1..4}) = 4
    /\ prp_op.result # apply_rounds(prp_op.input, forward_calls(prp)).result

(***************************************************************************)
(* The round functions.                                                    *)
(***************************************************************************)
\* the bytes of s from place PRP_MIN_LENGTH on (place 0 is the first)
TailOf(s) == SubSeq(s, PRP_MIN_LENGTH + 1, Len(s))

C36_KeystreamOnTail ==
    prp_op.name = "xor_keystream" =>
        LET B == prp_op.input
            k == prp_op.key
            iv == prp_op.iv
            after == prp_op.result[2]
            keyed == [i \in 1..Len(k) |-> xor(k[i], B[i])]
            counter == iv[1] + 256 * iv[2] + 65536 * iv[3] + 16777216 * iv[4]
            cipher == [key |-> keyed, iv |-> SubSeq(iv, 5, PRP_INTERMEDIATE_IV_LENGTH),
                       block_counter |-> counter]
        IN  /\ prp_op.result[1] = "ok"
            /\ Len(after) = Len(B)
            /\ SubSeq(after, 1, PRP_MIN_LENGTH) = SubSeq(B, 1, PRP_MIN_LENGTH)
            /\ TailOf(after) = apply(cipher, TailOf(B))
            /\ prp_op.key_after = k

\* xor_keystream has changed the tail of a buffer whose head changes the key of
\* the cipher, with an IV that gives a block counter other than 0
C36_Witness ==
    /\ prp_op.name = "xor_keystream"
    /\ Len(prp_op.input) > PRP_MIN_LENGTH
    /\ prp_op.input[1] # 0
    /\ prp_op.iv[1] # 0
    /\ prp_op.result[1] = "ok"
    /\ TailOf(prp_op.result[2]) # TailOf(prp_op.input)
    /\ prp_op.key_after = prp_op.key

(***************************************************************************)
(* The failure branches of update.                                         *)
(***************************************************************************)
\* C37: update(peer, Err) on a registered peer calls on_peer_offline(peer) exactly
\* when the quality after the failure, q' = max(0, q - 0.1), satisfies
\* BAD_QUALITY <= q' < network_quality_threshold; a successful update calls
\* neither on_peer_offline nor close_connection.
C37_OfflineIffBelowThreshold ==
    [][(op'.name = "update" /\ op'.registered) =>
          LET peer == op'.peer
              quality == Max(0, entries[peer].quality - QUALITY_STEP)
              offline == CallsOf(calls', "on_peer_offline")
          IN  IF op'.result = "err"
                THEN IF BAD_QUALITY <= quality /\ quality < network_quality_threshold
                       THEN offline = << <<"on_peer_offline", peer>> >>
                       ELSE offline = <<>>
                ELSE /\ offline = <<>>
                     /\ CallsOf(calls', "close_connection") = <<>>]_vars

\* a failure has left the peer with a quality of BAD_QUALITY, below the threshold,
\* and reported it offline
C37_Witness ==
    /\ op.name = "update" /\ op.result = "err" /\ op.registered
    /\ op.peer \in DOMAIN entries
    /\ entries[op.peer].quality = BAD_QUALITY
    /\ BAD_QUALITY < network_quality_threshold
    /\ CallsOf(calls, "on_peer_offline") = << <<"on_peer_offline", op.peer>> >>

\* C38: an update(peer, Err) that evicts the peer (quality after the failure below
\* 0.05) or marks it ignored (quality after the failure in [0.05, 0.2)) calls no
\* on_network_health_change and leaves the value of health() unchanged.
C38_NoHealthChangeOnEvictOrIgnore ==
    [][(/\ op'.name = "update" /\ op'.result = "err" /\ op'.registered
        /\ Max(0, entries[op'.peer].quality - QUALITY_STEP) < BAD_QUALITY) =>
          /\ CallsOf(calls', "on_network_health_change") = <<>>
          /\ health(Self)' = health(Self)]_vars

\* a failure has put a peer on the ignore list that is in a good set, while the
\* health is YELLOW or GREEN
C38_Witness ==
    /\ op.name = "update" /\ op.result = "err" /\ op.registered
    /\ op.peer \in DOMAIN entries
    /\ op.peer \in DOMAIN ignored
    /\ calls = <<>>
    /\ op.peer \in good_quality_public \cup good_quality_non_public
    /\ health(Self) \in {YELLOW, GREEN}

C40_RegisteredInMatchingSet ==
    \A peer \in DOMAIN entries :
        LET entry == entries[peer]
            good == entry.quality >= network_quality_threshold
        IN  peer \in (IF good
                        THEN IF entry.is_public
                               THEN good_quality_public ELSE good_quality_non_public
                        ELSE IF entry.is_public
                               THEN bad_quality_public ELSE bad_quality_non_public)

\* a public peer in a good set and a non-public peer in a bad set, after an update
\* that moved a peer
C40_Witness ==
    /\ op.name = "update" /\ op.registered
    /\ \E p \in DOMAIN entries :
          /\ entries[p].is_public
          /\ entries[p].quality >= network_quality_threshold
          /\ p \in good_quality_public
    /\ \E q \in DOMAIN entries :
          /\ ~entries[q].is_public
          /\ entries[q].quality < network_quality_threshold
          /\ q \in bad_quality_non_public

=========================================================================
